---- MODULE Spec2Model ----
(***************************************************************************)
(* The authorization and tenant-scoping core of the athlete-management     *)
(* backend (src/backend/app): token -> principal, role allow-lists,        *)
(* institution-scoped lookups, and the create / list / delete handlers of  *)
(* every router.                                                           *)
(*                                                                         *)
(* The relational store is a set of rows per table.  A handler is an       *)
(* operator from (store, token, payload) to (store, response); an action   *)
(* runs one whole handler, and Respond ends the request.                   *)
(*                                                                         *)
(* Reading of the source:                                                  *)
(*  - A row has the attributes the handlers read and write.  Where a       *)
(*    handler names an attribute that models.py spells differently         *)
(*    (role.role_name for UserRole.code, models.User for AppUser,          *)
(*    Team(coach_id=...), Attendance(notes=...)), the handler's reading    *)
(*    is taken: the role of a user is one value, the code of its role row. *)
(*  - None and SQL NULL are Null; `column == None` selects the rows whose  *)
(*    column is NULL, as SQLAlchemy renders it.                            *)
(*  - uuid.uuid4() is an id no row of the table has.                       *)
(*  - A query without ORDER BY returns rows in id (insertion) order.       *)
(*  - The store enforces no foreign keys and cascades nothing: delete      *)
(*    removes the institution row only.                                    *)
(*  - No endpoint creates roles, sports or assessment types, or gives a    *)
(*    user a role or an institution: those rows are provisioned, and Init  *)
(*    holds them.                                                          *)
(***************************************************************************)
EXTENDS Integers, FiniteSets, Sequences, TLC

\* ------------------------------------------------------------------ bounds
\* Rows by which the store may differ from the provisioned one: rows the
\* create handlers added and institution rows deleted.
MaxRows == 4

\* Rows a behaviour of the attendance endpoints creates: an athlete, a team,
\* a session and two attendance rows.
MaxRowsAttendance == 5

\* The clock stops at MaxTime minutes; at most MaxIssued tokens are handed out.
MaxTime == 120
MaxIssued == 2

\* Rows the concurrent requests create in all.
MaxRowsConcurrent == 5

\* --------------------------------------------------------------- constants
Null == 0
NoRole == "none"
HTTP_200 == 200
HTTP_400 == 400
HTTP_401 == 401
HTTP_403 == 403
HTTP_404 == 404
HTTP_422 == 422
HTTP_500 == 500
ACCESS_TOKEN_EXPIRE_MINUTES == 60
DefaultLimit == 50
MaxLimit == 200

\* Role(str, Enum) of every router
Role == [ADMIN |-> "admin", COACH |-> "coach", ATHLETE |-> "athlete"]

\* ------------------------------------------------------- provisioned rows
\* institutions 1 and 2; users: an admin and a coach in each, an athlete
\* user in 1, and a user as register leaves it (no role, no institution).
SeedInstitutions == {1, 2}
\* pwd_context.hash / pwd_context.verify (bcrypt): the hash is not the
\* password, and verifies exactly the password it was made from.
hash_password(password) == <<"bcrypt", password>>
verify_password(plain_password, hashed_password) ==
  hashed_password = <<"bcrypt", plain_password>>

SeedUser(id, institution_id, role, email) ==
  [ id |-> id, institution_id |-> institution_id, role |-> role,
    email |-> email, password |-> hash_password("pw") ]
SeedUsers ==
  { SeedUser(1, 1, "admin", "admin1@x.com"),
    SeedUser(2, 1, "coach", "coach1@x.com"),
    SeedUser(3, 2, "admin", "admin2@x.com"),
    SeedUser(4, 2, "coach", "coach2@x.com"),
    SeedUser(5, 1, "athlete", "athlete1@x.com"),
    SeedUser(6, Null, NoRole, "new@x.com") }
SeedSports == { [id |-> 1, institution_id |-> 1], [id |-> 2, institution_id |-> 2] }
SeedAssessmentTypes == { [id |-> 1, institution_id |-> 1], [id |-> 2, institution_id |-> 2] }

VARIABLES
  institutions,      \* table institution: set of ids
  users,             \* table app_user (with its role's code)
  sports,            \* table sport
  assessment_types,  \* table assessment_type
  athletes,          \* table athlete
  teams,             \* table team
  sessions,          \* table session
  attendance,        \* table attendance
  assessments,       \* table assessment_result
  injuries,          \* table injury
  resp,              \* the request being answered: NoResp between requests
  env,               \* the process environment: SECRET_KEY, DATABASE_URL
  process,           \* "starting", "serving" or "failed"
  now,               \* datetime.utcnow(), in minutes
  issued,            \* the access tokens handed out so far
  inflight,          \* the requests being handled step by step, by worker
  db_sessions        \* the store sessions that are open

vars == <<institutions, users, sports, assessment_types, athletes, teams,
          sessions, attendance, assessments, injuries, resp,
          env, process, now, issued, inflight, db_sessions>>

\* The store as one value, as a handler sees it through its db session.
Store ==
  [ institutions |-> institutions, users |-> users, sports |-> sports,
    assessment_types |-> assessment_types, athletes |-> athletes,
    teams |-> teams, sessions |-> sessions, attendance |-> attendance,
    assessments |-> assessments, injuries |-> injuries ]

NoResp == [op |-> "none"]

\* Workers handle requests concurrently, one request each at a time.
Workers == {1, 2}
NoRequest == [pc |-> "idle"]

\* ---------------------------------------------------------------- helpers
\* HTTPException(status_code, detail) / a returned body, with the store the
\* handler leaves behind.
Reply(S, status, msg, ref, body) ==
  [store |-> S, status |-> status, detail |-> [msg |-> msg, ref |-> ref], body |-> body]

\* uuid.uuid4(): an id that no row of the table has.
FreshId(rows) ==
  CHOOSE n \in 1..(Cardinality(rows) + 1) : \A r \in rows : r.id # n

\* query.offset(offset).limit(limit).all() over rows in id order.
Page(rows, limit, offset) ==
  { r \in rows :
      LET rank == Cardinality({q \in rows : q.id <= r.id})
      IN  rank > offset /\ rank <= offset + limit }

\* Query(50, ge=1, le=200) and Query(0, ge=0)
ValidPage(limit, offset) == limit >= 1 /\ limit <= MaxLimit /\ offset >= 0

\* get_current_user without the lookup's None test: a subject without a row
\* resolves to a user of no role and no institution.
get_current_user_unchecked(S, tok) ==
  IF ~tok.valid \/ tok.sub = Null
  THEN [status |-> HTTP_401, msg |-> "Could not validate credentials", user |-> Null]
  ELSE LET found == {u \in S.users : u.id = tok.sub}
       IN  IF found = {}
           THEN [status |-> HTTP_200, msg |-> "ok",
                 user |-> [id |-> tok.sub, institution_id |-> Null, role |-> NoRole,
                           email |-> "", password |-> hash_password("")]]
           ELSE [status |-> HTTP_200, msg |-> "ok", user |-> CHOOSE u \in found : TRUE]

\* ------------------------------------------------------------------- auth
\* get_current_user: decode the token, read its subject, look the user up.
get_current_user(S, tok) ==
  IF ~tok.valid \/ tok.sub = Null
  THEN [status |-> HTTP_401, msg |-> "Could not validate credentials", user |-> Null]
  ELSE LET found == {u \in S.users : u.id = tok.sub}
       IN  IF found = {}
           THEN [status |-> HTTP_401, msg |-> "Could not validate credentials", user |-> Null]
           ELSE [status |-> HTTP_200, msg |-> "ok", user |-> CHOOSE u \in found : TRUE]

\* require_role without the allow-list test: any authenticated user passes.
require_authenticated(S, tok, allowed_roles) == get_current_user(S, tok)

\* require_role with a hierarchy admin > coach > athlete: a role passes when
\* the allow-list holds it or a role below it.
require_role_hierarchy(S, tok, allowed_roles) ==
  LET cu == get_current_user(S, tok)
      below == [admin |-> {"admin", "coach", "athlete"},
                coach |-> {"coach", "athlete"},
                athlete |-> {"athlete"},
                none |-> {}]
  IN  IF cu.status # HTTP_200 THEN cu
      ELSE IF below[cu.user.role] \cap allowed_roles = {}
           THEN [status |-> HTTP_403, msg |-> "Forbidden: Insufficient role", user |-> Null]
           ELSE cu

\* require_role(allowed_roles)(current_user)
require_role(S, tok, allowed_roles) ==
  LET cu == get_current_user(S, tok)
  IN  IF cu.status # HTTP_200 THEN cu
      ELSE LET user_role == cu.user.role
           IN  IF user_role \notin allowed_roles
               THEN [status |-> HTTP_403, msg |-> "Forbidden: Insufficient role", user |-> Null]
               ELSE cu

\* A request that a dependency (authentication, role) ended.
Denied(S, a) == Reply(S, a.status, a.msg, Null, Null)

\* -------------------------------------------------------- create handlers
\* create_athlete stamping the institution of the linked user instead of the
\* caller's.
create_athlete_user_institution(S, tok, p) ==
  LET a == require_role(S, tok, {Role.ADMIN, Role.COACH})
  IN  IF a.status # HTTP_200 THEN Denied(S, a)
      ELSE
        LET user_exists == {u \in S.users : u.id = p.user_id}
        IN  IF user_exists = {}
            THEN Reply(S, HTTP_404, "User not found", p.user_id, Null)
            ELSE
              LET new_athlete ==
                    [ id |-> FreshId(S.athletes),
                      primary_sport_id |-> p.primary_sport_id,
                      user_id |-> p.user_id,
                      institution_id |-> (CHOOSE u \in user_exists : TRUE).institution_id ]
              IN  Reply([S EXCEPT !.athletes = @ \cup {new_athlete}],
                        HTTP_200, "ok", Null, new_athlete)

\* POST /athletes
create_athlete(S, tok, p) ==
  LET a == require_role(S, tok, {Role.ADMIN, Role.COACH})
  IN  IF a.status # HTTP_200 THEN Denied(S, a)
      ELSE
        LET current_user == a.user
            user_exists == {u \in S.users : u.id = p.user_id}
        IN  IF user_exists = {}
            THEN Reply(S, HTTP_404, "User not found", p.user_id, Null)
            ELSE
              LET new_athlete ==
                    [ id |-> FreshId(S.athletes),
                      primary_sport_id |-> p.primary_sport_id,
                      user_id |-> p.user_id,
                      institution_id |-> current_user.institution_id ]
              IN  Reply([S EXCEPT !.athletes = @ \cup {new_athlete}],
                        HTTP_200, "ok", Null, new_athlete)

\* create_team with the coach looked up by id and role, in any institution.
create_team_coach_anywhere(S, tok, p) ==
  LET a == require_role(S, tok, {Role.ADMIN})
  IN  IF a.status # HTTP_200 THEN Denied(S, a)
      ELSE
        LET current_user == a.user
            coach == { u \in S.users : u.id = p.coach_id /\ u.role = Role.COACH }
        IN  IF p.coach_id # Null /\ coach = {}
            THEN Reply(S, HTTP_400, "Invalid coach_id", Null, Null)
            ELSE
              LET new_team ==
                    [ id |-> FreshId(S.teams),
                      sport_id |-> p.sport_id,
                      institution_id |-> current_user.institution_id,
                      coach_id |-> p.coach_id ]
              IN  Reply([S EXCEPT !.teams = @ \cup {new_team}],
                        HTTP_200, "ok", Null, new_team)

\* POST /teams
create_team(S, tok, p) ==
  LET a == require_role(S, tok, {Role.ADMIN})
  IN  IF a.status # HTTP_200 THEN Denied(S, a)
      ELSE
        LET current_user == a.user
            coach == { u \in S.users :
                         /\ u.id = p.coach_id
                         /\ u.institution_id = current_user.institution_id
                         /\ u.role = Role.COACH }
        IN  IF p.coach_id # Null /\ coach = {}
            THEN Reply(S, HTTP_400, "Invalid coach_id", Null, Null)
            ELSE
              LET new_team ==
                    [ id |-> FreshId(S.teams),
                      sport_id |-> p.sport_id,
                      institution_id |-> current_user.institution_id,
                      coach_id |-> p.coach_id ]
              IN  Reply([S EXCEPT !.teams = @ \cup {new_team}],
                        HTTP_200, "ok", Null, new_team)

\* create_session adding the row before it validates coach_id.
create_session_insert_first(S, tok, p) ==
  LET a == require_role(S, tok, {Role.ADMIN, Role.COACH})
  IN  IF a.status # HTTP_200 THEN Denied(S, a)
      ELSE
        LET current_user == a.user
            team == { t \in S.teams :
                        /\ t.id = p.team_id
                        /\ t.institution_id = current_user.institution_id }
            coach == { u \in S.users :
                         /\ u.id = p.coach_id
                         /\ u.institution_id = current_user.institution_id
                         /\ u.role = Role.COACH }
            new_session ==
              [ id |-> FreshId(S.sessions),
                team_id |-> p.team_id,
                coach_id |-> p.coach_id ]
            added == [S EXCEPT !.sessions = @ \cup {new_session}]
        IN  IF team = {}
            THEN Reply(S, HTTP_404, "Team not found in your institution", Null, Null)
            ELSE IF p.coach_id # Null /\ coach = {}
            THEN Reply(added, HTTP_400, "Invalid coach_id for your institution", Null, Null)
            ELSE Reply(added, HTTP_200, "ok", Null, new_session)

\* POST /sessions
create_session(S, tok, p) ==
  LET a == require_role(S, tok, {Role.ADMIN, Role.COACH})
  IN  IF a.status # HTTP_200 THEN Denied(S, a)
      ELSE
        LET current_user == a.user
            team == { t \in S.teams :
                        /\ t.id = p.team_id
                        /\ t.institution_id = current_user.institution_id }
            coach == { u \in S.users :
                         /\ u.id = p.coach_id
                         /\ u.institution_id = current_user.institution_id
                         /\ u.role = Role.COACH }
        IN  IF team = {}
            THEN Reply(S, HTTP_404, "Team not found in your institution", Null, Null)
            ELSE IF p.coach_id # Null /\ coach = {}
            THEN Reply(S, HTTP_400, "Invalid coach_id for your institution", Null, Null)
            ELSE
              LET new_session ==
                    [ id |-> FreshId(S.sessions),
                      team_id |-> p.team_id,
                      coach_id |-> p.coach_id ]
              IN  Reply([S EXCEPT !.sessions = @ \cup {new_session}],
                        HTTP_200, "ok", Null, new_session)

\* Session without the Team join: every session.
SessionsOfAnyTeam(S, institution_id) == S.sessions

\* Session JOIN Team: the sessions whose team is of the institution.
SessionsOf(S, institution_id) ==
  { s \in S.sessions :
      \E t \in S.teams : t.id = s.team_id /\ t.institution_id = institution_id }

\* server_default=func.now(): the value the store gives a column the insert
\* leaves out, read back by db.refresh.
func_now == "now()"

\* create_attendance with the primary key taken from the session id instead
\* of uuid4: db.add merges into a row that already has the key.
create_attendance_id_of_session(S, tok, p) ==
  LET a == require_role(S, tok, {Role.ADMIN, Role.COACH})
  IN  IF a.status # HTTP_200 THEN Denied(S, a)
      ELSE
        LET current_user == a.user
            athlete == { x \in S.athletes :
                           /\ x.id = p.athlete_id
                           /\ x.institution_id = current_user.institution_id }
            session_obj == { s \in SessionsOf(S, current_user.institution_id) :
                               s.id = p.session_id }
        IN  IF athlete = {}
            THEN Reply(S, HTTP_404, "Athlete not found in your institution",
                       p.athlete_id, Null)
            ELSE IF session_obj = {}
            THEN Reply(S, HTTP_404, "Session not found in your institution",
                       p.session_id, Null)
            ELSE
              LET new_attendance ==
                    [ id |-> p.session_id,
                      athlete_id |-> p.athlete_id,
                      session_id |-> p.session_id,
                      status |-> p.status,
                      recorded_at |-> func_now ]
              IN  Reply([S EXCEPT !.attendance =
                           {x \in @ : x.id # new_attendance.id} \cup {new_attendance}],
                        HTTP_200, "ok", Null, new_attendance)

\* create_attendance with the session looked up by id alone (no Team join).
create_attendance_session_by_id(S, tok, p) ==
  LET a == require_role(S, tok, {Role.ADMIN, Role.COACH})
  IN  IF a.status # HTTP_200 THEN Denied(S, a)
      ELSE
        LET current_user == a.user
            athlete == { x \in S.athletes :
                           /\ x.id = p.athlete_id
                           /\ x.institution_id = current_user.institution_id }
            session_obj == { s \in S.sessions : s.id = p.session_id }
        IN  IF athlete = {}
            THEN Reply(S, HTTP_404, "Athlete not found in your institution",
                       p.athlete_id, Null)
            ELSE IF session_obj = {}
            THEN Reply(S, HTTP_404, "Session not found in your institution",
                       p.session_id, Null)
            ELSE
              LET new_attendance ==
                    [ id |-> FreshId(S.attendance),
                      athlete_id |-> p.athlete_id,
                      session_id |-> p.session_id,
                      status |-> p.status,
                      recorded_at |-> func_now ]
              IN  Reply([S EXCEPT !.attendance = @ \cup {new_attendance}],
                        HTTP_200, "ok", Null, new_attendance)

\* create_attendance with the session verified before the athlete.
create_attendance_session_first(S, tok, p) ==
  LET a == require_role(S, tok, {Role.ADMIN, Role.COACH})
  IN  IF a.status # HTTP_200 THEN Denied(S, a)
      ELSE
        LET current_user == a.user
            athlete == { x \in S.athletes :
                           /\ x.id = p.athlete_id
                           /\ x.institution_id = current_user.institution_id }
            session_obj == { s \in SessionsOf(S, current_user.institution_id) :
                               s.id = p.session_id }
        IN  IF session_obj = {}
            THEN Reply(S, HTTP_404, "Session not found in your institution",
                       p.session_id, Null)
            ELSE IF athlete = {}
            THEN Reply(S, HTTP_404, "Athlete not found in your institution",
                       p.athlete_id, Null)
            ELSE
              LET new_attendance ==
                    [ id |-> FreshId(S.attendance),
                      athlete_id |-> p.athlete_id,
                      session_id |-> p.session_id,
                      status |-> p.status,
                      recorded_at |-> func_now ]
              IN  Reply([S EXCEPT !.attendance = @ \cup {new_attendance}],
                        HTTP_200, "ok", Null, new_attendance)

\* POST /attendance
create_attendance(S, tok, p) ==
  LET a == require_role(S, tok, {Role.ADMIN, Role.COACH})
  IN  IF a.status # HTTP_200 THEN Denied(S, a)
      ELSE
        LET current_user == a.user
            athlete == { x \in S.athletes :
                           /\ x.id = p.athlete_id
                           /\ x.institution_id = current_user.institution_id }
            session_obj == { s \in SessionsOf(S, current_user.institution_id) :
                               s.id = p.session_id }
        IN  IF athlete = {}
            THEN Reply(S, HTTP_404, "Athlete not found in your institution",
                       p.athlete_id, Null)
            ELSE IF session_obj = {}
            THEN Reply(S, HTTP_404, "Session not found in your institution",
                       p.session_id, Null)
            ELSE
              LET new_attendance ==
                    [ id |-> FreshId(S.attendance),
                      athlete_id |-> p.athlete_id,
                      session_id |-> p.session_id,
                      status |-> p.status,
                      recorded_at |-> func_now ]
              IN  Reply([S EXCEPT !.attendance = @ \cup {new_attendance}],
                        HTTP_200, "ok", Null, new_attendance)

\* isinstance(payload.value, (int, float))
IsNumber(v) == v \in Int

\* create_assessment with the assessment type looked up by id alone.
create_assessment_type_by_id(S, tok, p) ==
  LET a == require_role(S, tok, {Role.ADMIN, Role.COACH})
  IN  IF a.status # HTTP_200 THEN Denied(S, a)
      ELSE
        LET current_user == a.user
            athlete == { x \in S.athletes :
                           /\ x.id = p.athlete_id
                           /\ x.institution_id = current_user.institution_id }
            assessment_type == { t \in S.assessment_types : t.id = p.assessment_type_id }
        IN  IF athlete = {}
            THEN Reply(S, HTTP_404, "Athlete not found in your institution",
                       p.athlete_id, Null)
            ELSE IF assessment_type = {}
            THEN Reply(S, HTTP_404, "Assessment type not found in your institution",
                       p.assessment_type_id, Null)
            ELSE IF ~IsNumber(p.value)
            THEN Reply(S, HTTP_400, "Assessment value must be a number", Null, Null)
            ELSE
              LET new_assessment ==
                    [ id |-> FreshId(S.assessments),
                      athlete_id |-> p.athlete_id,
                      assessment_type_id |-> p.assessment_type_id,
                      value |-> p.value ]
              IN  Reply([S EXCEPT !.assessments = @ \cup {new_assessment}],
                        HTTP_200, "ok", Null, new_assessment)

\* POST /assessments
create_assessment(S, tok, p) ==
  LET a == require_role(S, tok, {Role.ADMIN, Role.COACH})
  IN  IF a.status # HTTP_200 THEN Denied(S, a)
      ELSE
        LET current_user == a.user
            athlete == { x \in S.athletes :
                           /\ x.id = p.athlete_id
                           /\ x.institution_id = current_user.institution_id }
            assessment_type == { t \in S.assessment_types :
                                   /\ t.id = p.assessment_type_id
                                   /\ t.institution_id = current_user.institution_id }
        IN  IF athlete = {}
            THEN Reply(S, HTTP_404, "Athlete not found in your institution",
                       p.athlete_id, Null)
            ELSE IF assessment_type = {}
            THEN Reply(S, HTTP_404, "Assessment type not found in your institution",
                       p.assessment_type_id, Null)
            ELSE IF ~IsNumber(p.value)
            THEN Reply(S, HTTP_400, "Assessment value must be a number", Null, Null)
            ELSE
              LET new_assessment ==
                    [ id |-> FreshId(S.assessments),
                      athlete_id |-> p.athlete_id,
                      assessment_type_id |-> p.assessment_type_id,
                      value |-> p.value ]
              IN  Reply([S EXCEPT !.assessments = @ \cup {new_assessment}],
                        HTTP_200, "ok", Null, new_assessment)

\* create_injury taking reported_by from the payload when it has one.
create_injury_reported_by_payload(S, tok, p) ==
  LET a == require_role(S, tok, {Role.ADMIN, Role.COACH})
  IN  IF a.status # HTTP_200 THEN Denied(S, a)
      ELSE
        LET current_user == a.user
            athlete == { x \in S.athletes :
                           /\ x.id = p.athlete_id
                           /\ x.institution_id = current_user.institution_id }
        IN  IF athlete = {}
            THEN Reply(S, HTTP_404, "Athlete not found in your institution",
                       p.athlete_id, Null)
            ELSE
              LET new_injury ==
                    [ id |-> FreshId(S.injuries),
                      athlete_id |-> p.athlete_id,
                      reported_by |-> IF p.reported_by # Null THEN p.reported_by
                                      ELSE current_user.id ]
              IN  Reply([S EXCEPT !.injuries = @ \cup {new_injury}],
                        HTTP_200, "ok", Null, new_injury)

\* POST /injuries
create_injury(S, tok, p) ==
  LET a == require_role(S, tok, {Role.ADMIN, Role.COACH})
  IN  IF a.status # HTTP_200 THEN Denied(S, a)
      ELSE
        LET current_user == a.user
            athlete == { x \in S.athletes :
                           /\ x.id = p.athlete_id
                           /\ x.institution_id = current_user.institution_id }
        IN  IF athlete = {}
            THEN Reply(S, HTTP_404, "Athlete not found in your institution",
                       p.athlete_id, Null)
            ELSE
              LET new_injury ==
                    [ id |-> FreshId(S.injuries),
                      athlete_id |-> p.athlete_id,
                      reported_by |-> current_user.id ]
              IN  Reply([S EXCEPT !.injuries = @ \cup {new_injury}],
                        HTTP_200, "ok", Null, new_injury)

\* ---------------------------------------------------------- list handlers
\* What every list handler does around its query: resolve the principal,
\* validate limit/offset, page the selected rows.
Listed(S, cu, rows, limit, offset) ==
  IF cu.status # HTTP_200 THEN Denied(S, cu)
  ELSE IF ~ValidPage(limit, offset)
  THEN Reply(S, HTTP_422, "validation error", Null, {})
  ELSE Reply(S, HTTP_200, "ok", Null, Page(rows, limit, offset))

\* GET /athletes
list_athletes(S, tok, limit, offset) ==
  LET cu == get_current_user(S, tok)
  IN  Listed(S, cu,
             { x \in S.athletes : x.institution_id = cu.user.institution_id },
             limit, offset)

\* GET /teams
list_teams(S, tok, limit, offset) ==
  LET cu == get_current_user(S, tok)
  IN  Listed(S, cu,
             { t \in S.teams : t.institution_id = cu.user.institution_id },
             limit, offset)

\* GET /sessions
list_sessions(S, tok, limit, offset) ==
  LET cu == get_current_user(S, tok)
  IN  Listed(S, cu, SessionsOf(S, cu.user.institution_id), limit, offset)

\* <child> without the Athlete join: every child row.
OfAnyAthlete(S, rows, institution_id) == rows

\* <child> JOIN Athlete: the child rows whose athlete is of the institution.
OfAthletesOf(S, rows, institution_id) ==
  { r \in rows :
      \E x \in S.athletes : x.id = r.athlete_id /\ x.institution_id = institution_id }

\* GET /attendance
list_attendance(S, tok, limit, offset) ==
  LET cu == get_current_user(S, tok)
  IN  Listed(S, cu, OfAthletesOf(S, S.attendance, cu.user.institution_id),
             limit, offset)

\* GET /assessments
list_assessments(S, tok, limit, offset) ==
  LET cu == get_current_user(S, tok)
  IN  Listed(S, cu, OfAthletesOf(S, S.assessments, cu.user.institution_id),
             limit, offset)

\* GET /injuries
list_injuries(S, tok, limit, offset) ==
  LET cu == get_current_user(S, tok)
  IN  Listed(S, cu, OfAthletesOf(S, S.injuries, cu.user.institution_id),
             limit, offset)

\* ------------------------------------- list handlers of src/app/routers
\* The revision under src/app declares no limit / offset: query parameters
\* of those names are ignored and .all() returns every selected row.
\* GET /teams
app_list_teams(S, tok) ==
  LET cu == get_current_user(S, tok)
  IN  IF cu.status # HTTP_200 THEN Denied(S, cu)
      ELSE Reply(S, HTTP_200, "ok", Null,
                 { t \in S.teams : t.institution_id = cu.user.institution_id })

\* GET /attendance
app_list_attendance(S, tok) ==
  LET cu == get_current_user(S, tok)
  IN  IF cu.status # HTTP_200 THEN Denied(S, cu)
      ELSE Reply(S, HTTP_200, "ok", Null,
                 OfAthletesOf(S, S.attendance, cu.user.institution_id))

\* GET /injuries
app_list_injuries(S, tok) ==
  LET cu == get_current_user(S, tok)
  IN  IF cu.status # HTTP_200 THEN Denied(S, cu)
      ELSE Reply(S, HTTP_200, "ok", Null,
                 OfAthletesOf(S, S.injuries, cu.user.institution_id))

\* --------------------------------------------------- institution handlers
\* GET /institutions/ (no principal is resolved)
get_institutions(S, limit, offset) ==
  IF ~ValidPage(limit, offset)
  THEN Reply(S, HTTP_422, "validation error", Null, {})
  ELSE Reply(S, HTTP_200, "ok", Null,
             { i \in S.institutions :
                 LET rank == Cardinality({j \in S.institutions : j <= i})
                 IN  rank > offset /\ rank <= offset + limit })

\* GET /institutions/{institution_id} (no principal is resolved)
get_institution(S, institution_id) ==
  IF institution_id \notin S.institutions
  THEN Reply(S, HTTP_404, "Institution not found", Null, Null)
  ELSE Reply(S, HTTP_200, "ok", Null, institution_id)

\* An institution id that no row has or refers to.
FreshInstitutionId(S) ==
  LET used == S.institutions
                \cup {u.institution_id : u \in S.users}
                \cup {x.institution_id : x \in S.sports}
                \cup {x.institution_id : x \in S.assessment_types}
                \cup {x.institution_id : x \in S.athletes}
                \cup {x.institution_id : x \in S.teams}
  IN  CHOOSE n \in 1..(Cardinality(used) + 1) : n \notin used

\* POST /institutions/
create_institution(S, tok) ==
  LET a == require_role(S, tok, {Role.ADMIN})
  IN  IF a.status # HTTP_200 THEN Denied(S, a)
      ELSE LET new_institution == FreshInstitutionId(S)
           IN  Reply([S EXCEPT !.institutions = @ \cup {new_institution}],
                     HTTP_200, "ok", Null, new_institution)

\* DELETE /institutions/{institution_id}
delete_institution(S, tok, institution_id) ==
  LET a == require_role(S, tok, {Role.ADMIN})
  IN  IF a.status # HTTP_200 THEN Denied(S, a)
      ELSE IF institution_id \notin S.institutions
      THEN Reply(S, HTTP_404, "Institution not found", Null, Null)
      ELSE Reply([S EXCEPT !.institutions = @ \ {institution_id}],
                 HTTP_200, "deleted", institution_id, Null)

\* ----------------------------------------------------------- auth (JWT)
\* An access token: the claims, the key it is signed with, and whether it
\* parses as a JWT at all.  A claim's value is what jwt.encode was given.
\* str(user.id), and the id the query's comparison reads it as.
str(id) == <<"str", id>>
uuid_of(text) == text[2]

\* create_access_token(data, expires_delta) run with the process's
\* SECRET_KEY at time utcnow: raises without a key, else signs data and exp.
create_access_token(data, expires_delta, SECRET_KEY, utcnow) ==
  IF SECRET_KEY = ""
  THEN [raised |-> "RuntimeError", encoded_jwt |-> Null]
  ELSE LET expire == utcnow + (IF expires_delta # Null THEN expires_delta
                               ELSE ACCESS_TOKEN_EXPIRE_MINUTES)
       IN  [ raised |-> "",
             encoded_jwt |-> [ claims |-> [sub |-> data.sub, exp |-> expire],
                               key |-> SECRET_KEY, form |-> "jwt" ] ]

\* jwt.decode without the exp claim's check.
jwt_decode_ignoring_exp(token, key, utcnow) ==
  IF token.form # "jwt" \/ token.key # key
  THEN [raised |-> "JWTError", payload |-> Null]
  ELSE [raised |-> "", payload |-> token.claims]

\* jwt.decode(token, SECRET_KEY, algorithms=[ALGORITHM]) at time utcnow:
\* JWTError for a token that does not parse, whose signature is not the
\* key's, or whose exp is before utcnow.
jwt_decode(token, key, utcnow) ==
  IF token.form # "jwt" \/ token.key # key
  THEN [raised |-> "JWTError", payload |-> Null]
  ELSE IF "exp" \in DOMAIN token.claims /\ token.claims.exp < utcnow
  THEN [raised |-> "JWTError", payload |-> Null]
  ELSE [raised |-> "", payload |-> token.claims]

\* The first half of get_current_user: the token as its second half sees it
\* (verified or not, and the subject the user query compares ids with).
bearer(token, key, utcnow) ==
  LET d == jwt_decode(token, key, utcnow)
  IN  IF d.raised # "" THEN [valid |-> FALSE, sub |-> Null]
      ELSE IF "sub" \notin DOMAIN d.payload THEN [valid |-> TRUE, sub |-> Null]
      ELSE [valid |-> TRUE, sub |-> uuid_of(d.payload.sub)]

\* register with no look at the users already there.
register_unconditionally(S, payload, SECRET_KEY, utcnow) ==
  LET new_user == [ id |-> FreshId(S.users), institution_id |-> Null,
                    role |-> NoRole, email |-> payload.email,
                    password |-> hash_password(payload.password) ]
      S2 == [S EXCEPT !.users = @ \cup {new_user}]
      token == create_access_token([sub |-> str(new_user.id)], Null, SECRET_KEY, utcnow)
  IN  IF token.raised # ""
      THEN Reply(S2, HTTP_500, "Internal Server Error", Null, Null)
      ELSE Reply(S2, HTTP_200, "ok", Null,
                 [access_token |-> token.encoded_jwt, token_type |-> "bearer"])

\* POST /api/auth/register.  The user row is committed before the token is
\* made, so a RuntimeError of create_access_token leaves the row behind.
register(S, payload, SECRET_KEY, utcnow) ==
  LET existing_user == {u \in S.users : u.email = payload.email}
  IN  IF existing_user # {}
      THEN Reply(S, HTTP_400, "User already exists", Null, Null)
      ELSE
        LET new_user == [ id |-> FreshId(S.users), institution_id |-> Null,
                          role |-> NoRole, email |-> payload.email,
                          password |-> hash_password(payload.password) ]
            S2 == [S EXCEPT !.users = @ \cup {new_user}]
            token == create_access_token([sub |-> str(new_user.id)], Null,
                                         SECRET_KEY, utcnow)
        IN  IF token.raised # ""
            THEN Reply(S2, HTTP_500, "Internal Server Error", Null, Null)
            ELSE Reply(S2, HTTP_200, "ok", Null,
                       [access_token |-> token.encoded_jwt, token_type |-> "bearer"])

\* POST /api/auth/login
login(S, payload, SECRET_KEY, utcnow) ==
  LET user == {u \in S.users : u.email = payload.email}
  IN  IF user = {} \/ \A u \in user : ~verify_password(payload.password, u.password)
      THEN Reply(S, HTTP_401, "Invalid credentials", Null, Null)
      ELSE
        LET token == create_access_token([sub |-> str((CHOOSE u \in user : TRUE).id)],
                                         Null, SECRET_KEY, utcnow)
        IN  IF token.raised # ""
            THEN Reply(S, HTTP_500, "Internal Server Error", Null, Null)
            ELSE Reply(S, HTTP_200, "ok", Null,
                       [access_token |-> token.encoded_jwt, token_type |-> "bearer"])

\* ----------------------------------------------------------------- inputs
\* Bearer tokens: a well-signed token of each principal and of a subject no
\* user row has, and a token that does not verify.
TokenSubjects == {1, 2, 3, 5, 6, 7}
Tokens ==
  { [valid |-> TRUE, sub |-> s] : s \in TokenSubjects }
    \cup { [valid |-> FALSE, sub |-> 1] }

\* A request without an Authorization header.
NoToken == [valid |-> FALSE, sub |-> Null]

\* Ids a request may name; a table holds no more rows than can be named.
RefIds == {1, 2}
AthletePayloads == [user_id : {Null, 4}, primary_sport_id : {2}]
\* coach_id: none, an admin and a coach of institution 2, an athlete of
\* institution 1, and an id no user has.
CoachIds == {Null, 3, 4, 5, 7}
TeamPayloads == [sport_id : {2}, coach_id : CoachIds]
SessionPayloads == [team_id : RefIds, coach_id : CoachIds]
AttendancePayloads == [athlete_id : RefIds, session_id : RefIds, status : {"present", "absent"}]
AssessmentPayloads == [athlete_id : RefIds, assessment_type_id : {1, 2}, value : {7}]
InjuryPayloads == [athlete_id : RefIds, reported_by : {Null, 4}]
Pages == { <<DefaultLimit, 0>> }
InstitutionIds == {2, 3}

\* Query strings of a list request: the parameters it carries.  None; each
\* bound overstepped; the largest limit; a limit smaller than the result.
NoQuery == [n \in {} |-> 0]
Queries ==
  { NoQuery, [limit |-> 0], [limit |-> MaxLimit + 1], [offset |-> 0 - 1],
    [limit |-> MaxLimit, offset |-> 0], [limit |-> 1], [limit |-> 1, offset |-> 1] }

\* Query(50, ge=1, le=200) / Query(0, ge=0): the parameter, or its default.
LimitOf(q) == IF "limit" \in DOMAIN q THEN q.limit ELSE DefaultLimit
OffsetOf(q) == IF "offset" \in DOMAIN q THEN q.offset ELSE 0

\* Environments the process may be started in; "" is a variable not set.
Envs == [SECRET_KEY : {"secret", ""}, DATABASE_URL : {"postgresql://db", ""}]

\* Registrations: an email no user has, and the email of user 6.
RegisterRequests == [email : {"a@x.com", "new@x.com"}, password : {"pw"}]
\* Logins: a provisioned user and the email RegisterRequests adds, each with
\* the right and a wrong password.
LoginRequests == [email : {"admin1@x.com", "a@x.com"}, password : {"pw", "wrong"}]

\* Tokens the server never issued: signed with another key, not a JWT,
\* and one without a sub claim; none of them expires within MaxTime.
ForgedTokens ==
  { [ claims |-> [sub |-> str(1), exp |-> MaxTime + ACCESS_TOKEN_EXPIRE_MINUTES],
      key |-> "other", form |-> "jwt" ],
    [ claims |-> [sub |-> str(1), exp |-> MaxTime + ACCESS_TOKEN_EXPIRE_MINUTES],
      key |-> "secret", form |-> "garbage" ],
    [ claims |-> [exp |-> MaxTime + ACCESS_TOKEN_EXPIRE_MINUTES],
      key |-> "secret", form |-> "jwt" ] }

\* The clock is read every TickMinutes.
TickMinutes == 30

\* ---------------------------------------------------------------- actions
\* The tables the create handlers write.
Written(S) ==
  {S.athletes, S.teams, S.sessions, S.attendance, S.assessments, S.injuries}

Changed(S) ==
  Cardinality(S.athletes) + Cardinality(S.teams) + Cardinality(S.sessions)
    + Cardinality(S.attendance) + Cardinality(S.assessments) + Cardinality(S.injuries)
    + Cardinality(S.institutions \ SeedInstitutions)
    + Cardinality(SeedInstitutions \ S.institutions)

\* Requests are served one at a time.
Idle == resp = NoResp

\* One request: the handler runs on the store as it is and leaves store and
\* response behind; wrote records whether it changed the store.
Answer(op, tok, payload, r) ==
  /\ institutions' = r.store.institutions
  /\ users' = r.store.users
  /\ sports' = r.store.sports
  /\ assessment_types' = r.store.assessment_types
  /\ athletes' = r.store.athletes
  /\ teams' = r.store.teams
  /\ sessions' = r.store.sessions
  /\ attendance' = r.store.attendance
  /\ assessments' = r.store.assessments
  /\ injuries' = r.store.injuries
  /\ resp' = [ op |-> op, tok |-> tok, payload |-> payload, status |-> r.status,
               detail |-> r.detail, body |-> r.body, wrote |-> (r.store # Store) ]

\* The process answers requests once its modules have been imported.
Serving == process = "serving"

ServeWithin(rows, op, tok, payload, r) ==
  /\ Serving
  /\ Changed(r.store) <= rows
  /\ \A t \in Written(r.store) : Cardinality(t) <= Cardinality(RefIds)
  /\ r.store.institutions \subseteq SeedInstitutions \cup InstitutionIds
  /\ Answer(op, tok, payload, r)
  /\ UNCHANGED <<env, process, now, issued, inflight, db_sessions>>

Serve(op, tok, payload, r) == ServeWithin(MaxRows, op, tok, payload, r)

CreateAthlete ==
  /\ Idle
  /\ \E tok \in Tokens, p \in AthletePayloads :
       Serve("create_athlete", tok, p, create_athlete(Store, tok, p))
CreateTeam ==
  /\ Idle
  /\ \E tok \in Tokens, p \in TeamPayloads :
       Serve("create_team", tok, p, create_team(Store, tok, p))
CreateSession ==
  /\ Idle
  /\ \E tok \in Tokens, p \in SessionPayloads :
       Serve("create_session", tok, p, create_session(Store, tok, p))
CreateAttendance ==
  /\ Idle
  /\ \E tok \in Tokens, p \in AttendancePayloads :
       Serve("create_attendance", tok, p, create_attendance(Store, tok, p))
CreateAssessment ==
  /\ Idle
  /\ \E tok \in Tokens, p \in AssessmentPayloads :
       Serve("create_assessment", tok, p, create_assessment(Store, tok, p))
CreateInjury ==
  /\ Idle
  /\ \E tok \in Tokens, p \in InjuryPayloads :
       Serve("create_injury", tok, p, create_injury(Store, tok, p))
ListAthletes ==
  /\ Idle
  /\ \E tok \in Tokens, pg \in Pages :
       Serve("list_athletes", tok, pg, list_athletes(Store, tok, pg[1], pg[2]))
ListTeams ==
  /\ Idle
  /\ \E tok \in Tokens, pg \in Pages :
       Serve("list_teams", tok, pg, list_teams(Store, tok, pg[1], pg[2]))
ListSessions ==
  /\ Idle
  /\ \E tok \in Tokens, pg \in Pages :
       Serve("list_sessions", tok, pg, list_sessions(Store, tok, pg[1], pg[2]))
ListAttendance ==
  /\ Idle
  /\ \E tok \in Tokens, pg \in Pages :
       Serve("list_attendance", tok, pg, list_attendance(Store, tok, pg[1], pg[2]))
ListAssessments ==
  /\ Idle
  /\ \E tok \in Tokens, pg \in Pages :
       Serve("list_assessments", tok, pg, list_assessments(Store, tok, pg[1], pg[2]))
ListInjuries ==
  /\ Idle
  /\ \E tok \in Tokens, pg \in Pages :
       Serve("list_injuries", tok, pg, list_injuries(Store, tok, pg[1], pg[2]))
GetInstitutions ==
  /\ Idle
  /\ \E pg \in Pages :
       Serve("get_institutions", NoToken, pg, get_institutions(Store, pg[1], pg[2]))
GetInstitution ==
  /\ Idle
  /\ \E i \in InstitutionIds :
       Serve("get_institution", NoToken, i, get_institution(Store, i))
CreateInstitution ==
  /\ Idle
  /\ \E tok \in Tokens :
       Serve("create_institution", tok, Null, create_institution(Store, tok))
DeleteInstitution ==
  /\ Idle
  /\ \E tok \in Tokens, i \in InstitutionIds :
       Serve("delete_institution", tok, i, delete_institution(Store, tok, i))

\* List requests with a query string, to either revision's handlers.
QueryAthletes ==
  /\ Idle
  /\ \E tok \in Tokens, q \in Queries :
       Serve("list_athletes", tok, q, list_athletes(Store, tok, LimitOf(q), OffsetOf(q)))
QueryTeams ==
  /\ Idle
  /\ \E tok \in Tokens, q \in Queries :
       Serve("list_teams", tok, q, list_teams(Store, tok, LimitOf(q), OffsetOf(q)))
QuerySessions ==
  /\ Idle
  /\ \E tok \in Tokens, q \in Queries :
       Serve("list_sessions", tok, q, list_sessions(Store, tok, LimitOf(q), OffsetOf(q)))
QueryAttendance ==
  /\ Idle
  /\ \E tok \in Tokens, q \in Queries :
       Serve("list_attendance", tok, q, list_attendance(Store, tok, LimitOf(q), OffsetOf(q)))
QueryAssessments ==
  /\ Idle
  /\ \E tok \in Tokens, q \in Queries :
       Serve("list_assessments", tok, q, list_assessments(Store, tok, LimitOf(q), OffsetOf(q)))
QueryInjuries ==
  /\ Idle
  /\ \E tok \in Tokens, q \in Queries :
       Serve("list_injuries", tok, q, list_injuries(Store, tok, LimitOf(q), OffsetOf(q)))
AppQueryTeams ==
  /\ Idle
  /\ \E tok \in Tokens, q \in Queries :
       Serve("app_list_teams", tok, q, app_list_teams(Store, tok))
AppQueryAttendance ==
  /\ Idle
  /\ \E tok \in Tokens, q \in Queries :
       Serve("app_list_attendance", tok, q, app_list_attendance(Store, tok))
AppQueryInjuries ==
  /\ Idle
  /\ \E tok \in Tokens, q \in Queries :
       Serve("app_list_injuries", tok, q, app_list_injuries(Store, tok))

\* The endpoints a second attendance row takes: the athlete, the team and
\* the session it names, and the attendance endpoints themselves.
AttendanceAthlete ==
  /\ Idle
  /\ \E tok \in Tokens, p \in AthletePayloads :
       ServeWithin(MaxRowsAttendance, "create_athlete", tok, p,
                   create_athlete(Store, tok, p))
AttendanceTeam ==
  /\ Idle
  /\ \E tok \in Tokens, p \in TeamPayloads :
       ServeWithin(MaxRowsAttendance, "create_team", tok, p,
                   create_team(Store, tok, p))
AttendanceSession ==
  /\ Idle
  /\ \E tok \in Tokens, p \in SessionPayloads :
       ServeWithin(MaxRowsAttendance, "create_session", tok, p,
                   create_session(Store, tok, p))
AttendanceCreate ==
  /\ Idle
  /\ \E tok \in Tokens, p \in AttendancePayloads :
       ServeWithin(MaxRowsAttendance, "create_attendance", tok, p,
                   create_attendance(Store, tok, p))
AttendanceList ==
  /\ Idle
  /\ \E tok \in Tokens, pg \in Pages :
       ServeWithin(MaxRowsAttendance, "list_attendance", tok, pg,
                   list_attendance(Store, tok, pg[1], pg[2]))

\* The process starts: importing app.db raises when DATABASE_URL is not
\* set; app.auth only reads SECRET_KEY.
Startup ==
  /\ process = "starting"
  /\ process' = IF env.DATABASE_URL = "" THEN "failed" ELSE "serving"
  /\ UNCHANGED <<institutions, users, sports, assessment_types, athletes, teams,
                 sessions, attendance, assessments, injuries, resp, env, now, issued,
                 inflight, db_sessions>>

\* Time passes between requests.
Tick ==
  /\ Idle
  /\ Serving
  /\ now + TickMinutes <= MaxTime
  /\ now' = now + TickMinutes
  /\ UNCHANGED <<institutions, users, sports, assessment_types, athletes, teams,
                 sessions, attendance, assessments, injuries, resp, env, process, issued,
                 inflight, db_sessions>>

\* The token a 200 of login or register carries.
TokensOf(r) == IF r.status = HTTP_200 THEN {r.body.access_token} ELSE {}

Register ==
  /\ Idle
  /\ Serving
  /\ \E p \in RegisterRequests :
       LET r == register(Store, p, env.SECRET_KEY, now)
       IN  /\ Cardinality(issued \cup TokensOf(r)) <= MaxIssued
           /\ Answer("register", NoToken, p, r)
           /\ issued' = issued \cup TokensOf(r)
           /\ UNCHANGED <<env, process, now, inflight, db_sessions>>
Login ==
  /\ Idle
  /\ Serving
  /\ \E p \in LoginRequests :
       LET r == login(Store, p, env.SECRET_KEY, now)
       IN  /\ Cardinality(issued \cup TokensOf(r)) <= MaxIssued
           /\ Answer("login", NoToken, p, r)
           /\ issued' = issued \cup TokensOf(r)
           /\ UNCHANGED <<env, process, now, inflight, db_sessions>>

\* GET /athletes with a bearer token, issued or forged.  Without a
\* SECRET_KEY jwt.decode is handed None as the key: the library either
\* raises the JWTError the handler turns into 401 or an error it does not
\* catch (500); the source does not say which.
BearerListAthletes ==
  /\ Idle
  /\ \E token \in issued \cup ForgedTokens :
       IF env.SECRET_KEY = ""
       THEN \E st \in {HTTP_401, HTTP_500} :
              Serve("list_athletes", [valid |-> FALSE, sub |-> Null],
                    [bearer |-> token],
                    Reply(Store, st, "Could not validate credentials", Null, Null))
       ELSE LET tok == bearer(token, env.SECRET_KEY, now)
            IN  Serve("list_athletes", tok, [bearer |-> token],
                      list_athletes(Store, tok, DefaultLimit, 0))

\* The response is sent and the request's db session is closed.
Respond ==
  /\ resp # NoResp
  /\ resp' = NoResp
  /\ UNCHANGED <<institutions, users, sports, assessment_types, athletes, teams,
                 sessions, attendance, assessments, injuries>>
  /\ UNCHANGED <<env, process, now, issued, inflight, db_sessions>>

Init ==
  /\ institutions = SeedInstitutions
  /\ users = SeedUsers
  /\ sports = SeedSports
  /\ assessment_types = SeedAssessmentTypes
  /\ athletes = {}
  /\ teams = {}
  /\ sessions = {}
  /\ attendance = {}
  /\ assessments = {}
  /\ injuries = {}
  /\ resp = NoResp
  /\ env = [SECRET_KEY |-> "secret", DATABASE_URL |-> "postgresql://db"]
  /\ process = "serving"
  /\ now = 0
  /\ issued = {}
  /\ inflight = [w \in Workers |-> NoRequest]
  /\ db_sessions = {}

Next ==
  \/ CreateAthlete
  \/ CreateTeam
  \/ CreateSession
  \/ CreateAttendance
  \/ CreateAssessment
  \/ CreateInjury
  \/ ListAthletes
  \/ ListTeams
  \/ ListSessions
  \/ ListAttendance
  \/ ListAssessments
  \/ ListInjuries
  \/ GetInstitutions
  \/ GetInstitution
  \/ CreateInstitution
  \/ DeleteInstitution
  \/ Respond

Spec == Init /\ [][Next]_vars

\* The create endpoints and the list endpoints of both revisions under every
\* query string.
NextPaging ==
  \/ CreateAthlete
  \/ CreateTeam
  \/ CreateSession
  \/ CreateAttendance
  \/ CreateAssessment
  \/ CreateInjury
  \/ QueryAthletes
  \/ QueryTeams
  \/ QuerySessions
  \/ QueryAttendance
  \/ QueryAssessments
  \/ QueryInjuries
  \/ AppQueryTeams
  \/ AppQueryAttendance
  \/ AppQueryInjuries
  \/ Respond

SpecPaging == Init /\ [][NextPaging]_vars

\* The process from its start in any environment: the auth endpoints, a
\* protected and a public read, and the clock.
InitAuth ==
  /\ institutions = SeedInstitutions
  /\ users = SeedUsers
  /\ sports = SeedSports
  /\ assessment_types = SeedAssessmentTypes
  /\ athletes = {}
  /\ teams = {}
  /\ sessions = {}
  /\ attendance = {}
  /\ assessments = {}
  /\ injuries = {}
  /\ resp = NoResp
  /\ env \in Envs
  /\ process = "starting"
  /\ now = 0
  /\ issued = {}
  /\ inflight = [w \in Workers |-> NoRequest]
  /\ db_sessions = {}

NextAuth ==
  \/ Startup
  \/ Tick
  \/ Register
  \/ Login
  \/ BearerListAthletes
  \/ GetInstitutions
  \/ Respond

SpecAuth == InitAuth /\ [][NextAuth]_vars

\* The attendance endpoints and what they depend on, one row further.
NextAttendance ==
  \/ AttendanceAthlete
  \/ AttendanceTeam
  \/ AttendanceSession
  \/ AttendanceCreate
  \/ AttendanceList
  \/ Respond

SpecAttendance == Init /\ [][NextAttendance]_vars

\* ================================================================= claims
\* The principal of the request being answered.
Caller == get_current_user(Store, resp.tok)
Authenticated == resp # NoResp /\ Caller.status = HTTP_200
OfAnInstitution == Caller.user.institution_id # Null

\* The roles each role-restricted endpoint lists.
AllowList ==
  [ create_athlete |-> {Role.ADMIN, Role.COACH},
    create_session |-> {Role.ADMIN, Role.COACH},
    create_attendance |-> {Role.ADMIN, Role.COACH},
    create_assessment |-> {Role.ADMIN, Role.COACH},
    create_injury |-> {Role.ADMIN, Role.COACH},
    create_team |-> {Role.ADMIN},
    create_institution |-> {Role.ADMIN},
    delete_institution |-> {Role.ADMIN} ]
RoleRestricted == resp # NoResp /\ resp.op \in DOMAIN AllowList
RoleListed == Caller.user.role \in AllowList[resp.op]
MayCreate == Caller.user.role \in {Role.ADMIN, Role.COACH}

\* The institutions of the row an id names (none when no row has the id).
InstOfUser(id) == {u.institution_id : u \in {u \in users : u.id = id}}
InstOfSport(id) == {x.institution_id : x \in {x \in sports : x.id = id}}
InstOfType(id) == {t.institution_id : t \in {t \in assessment_types : t.id = id}}
InstOfAthlete(id) == {x.institution_id : x \in {x \in athletes : x.id = id}}
InstOfTeam(id) == {t.institution_id : t \in {t \in teams : t.id = id}}
InstOfSession(id) ==
  UNION {InstOfTeam(s.team_id) : s \in {s \in sessions : s.id = id}}

ForeignAthlete(id, inst) == InstOfAthlete(id) \ {inst} # {}
ForeignTeam(id, inst) == InstOfTeam(id) \ {inst} # {}
ForeignSession(id, inst) == InstOfSession(id) \ {inst} # {}
ForeignType(id, inst) == InstOfType(id) \ {inst} # {}

\* The request names an athlete, team, session or assessment type of an
\* institution other than the caller's.
ForeignReference ==
  LET inst == Caller.user.institution_id
      p == resp.payload
  IN  \/ /\ resp.op \in {"create_attendance", "create_assessment", "create_injury"}
         /\ ForeignAthlete(p.athlete_id, inst)
      \/ resp.op = "create_attendance" /\ ForeignSession(p.session_id, inst)
      \/ resp.op = "create_assessment" /\ ForeignType(p.assessment_type_id, inst)
      \/ resp.op = "create_session" /\ ForeignTeam(p.team_id, inst)

NotFoundNothingUsed ==
  resp.status = HTTP_404 /\ resp.body = Null /\ ~resp.wrote

Outcome(r) == [status |-> r.status, detail |-> r.detail]

\* The stores that are S less one row of an institution other than inst.
OneForeignRowLess(S, inst) ==
  LET foreign(i) == i # Null /\ i # inst
      ofForeignAthlete(r) ==
        \E x \in S.athletes : x.id = r.athlete_id /\ foreign(x.institution_id)
      ofForeignTeam(r) ==
        \E t \in S.teams : t.id = r.team_id /\ foreign(t.institution_id)
  IN  { [S EXCEPT !.institutions = @ \ {i}] : i \in {i \in S.institutions : foreign(i)} }
      \cup { [S EXCEPT !.users = @ \ {r}] :
               r \in {r \in S.users : foreign(r.institution_id)} }
      \cup { [S EXCEPT !.sports = @ \ {r}] :
               r \in {r \in S.sports : foreign(r.institution_id)} }
      \cup { [S EXCEPT !.assessment_types = @ \ {r}] :
               r \in {r \in S.assessment_types : foreign(r.institution_id)} }
      \cup { [S EXCEPT !.athletes = @ \ {r}] :
               r \in {r \in S.athletes : foreign(r.institution_id)} }
      \cup { [S EXCEPT !.teams = @ \ {r}] :
               r \in {r \in S.teams : foreign(r.institution_id)} }
      \cup { [S EXCEPT !.sessions = @ \ {r}] :
               r \in {r \in S.sessions : ofForeignTeam(r)} }
      \cup { [S EXCEPT !.attendance = @ \ {r}] :
               r \in {r \in S.attendance : ofForeignAthlete(r)} }
      \cup { [S EXCEPT !.assessments = @ \ {r}] :
               r \in {r \in S.assessments : ofForeignAthlete(r)} }
      \cup { [S EXCEPT !.injuries = @ \ {r}] :
               r \in {r \in S.injuries : ofForeignAthlete(r)} }

\* The requests whose every lookup is filtered by the caller's institution
\* answer alike on S1 and S2 (lists: the same rows too).
ScopedLookupsAlike(S1, S2, tok) ==
  /\ \A p \in TeamPayloads :
       Outcome(create_team(S1, tok, p)) = Outcome(create_team(S2, tok, p))
  /\ \A p \in SessionPayloads :
       Outcome(create_session(S1, tok, p)) = Outcome(create_session(S2, tok, p))
  /\ \A p \in AttendancePayloads :
       Outcome(create_attendance(S1, tok, p)) = Outcome(create_attendance(S2, tok, p))
  /\ \A p \in AssessmentPayloads :
       Outcome(create_assessment(S1, tok, p)) = Outcome(create_assessment(S2, tok, p))
  /\ \A p \in InjuryPayloads :
       Outcome(create_injury(S1, tok, p)) = Outcome(create_injury(S2, tok, p))
  /\ \A pg \in Pages :
       /\ list_athletes(S1, tok, pg[1], pg[2]).body = list_athletes(S2, tok, pg[1], pg[2]).body
       /\ list_teams(S1, tok, pg[1], pg[2]).body = list_teams(S2, tok, pg[1], pg[2]).body
       /\ list_sessions(S1, tok, pg[1], pg[2]).body = list_sessions(S2, tok, pg[1], pg[2]).body
       /\ list_attendance(S1, tok, pg[1], pg[2]).body = list_attendance(S2, tok, pg[1], pg[2]).body
       /\ list_assessments(S1, tok, pg[1], pg[2]).body = list_assessments(S2, tok, pg[1], pg[2]).body
       /\ list_injuries(S1, tok, pg[1], pg[2]).body = list_injuries(S2, tok, pg[1], pg[2]).body

\* The requests with a lookup by id alone answer alike on S1 and S2.
UnscopedLookupsAlike(S1, S2, tok) ==
  /\ \A p \in AthletePayloads :
       Outcome(create_athlete(S1, tok, p)) = Outcome(create_athlete(S2, tok, p))
  /\ \A i \in InstitutionIds :
       /\ Outcome(get_institution(S1, i)) = Outcome(get_institution(S2, i))
       /\ Outcome(delete_institution(S1, tok, i)) = Outcome(delete_institution(S2, tok, i))

\* C2: for every principal P, the store as it is and the store less one row
\* of an institution other than P's are indistinguishable to P: every
\* request of P has the same status and detail on both.
C2_Indistinguishable ==
  \A tok \in Tokens :
    LET cu == get_current_user(Store, tok)
    IN  cu.status = HTTP_200 =>
          \A S2 \in OneForeignRowLess(Store, cu.user.institution_id) :
            /\ ScopedLookupsAlike(Store, S2, tok)
            /\ UnscopedLookupsAlike(Store, S2, tok)

AllowedSets == SUBSET {Role.ADMIN, Role.COACH, Role.ATHLETE}

ListOps == {"list_athletes", "list_teams", "list_sessions",
            "list_attendance", "list_assessments", "list_injuries"}

\* The row, as list endpoint op returns it, is of institution inst: by its
\* own column, through its team, or through its athlete.
RowOfInstitution(op, row, inst) ==
  CASE op \in {"list_athletes", "list_teams"} -> row.institution_id = inst
    [] op = "list_sessions" -> InstOfTeam(row.team_id) = {inst}
    [] OTHER -> InstOfAthlete(row.athlete_id) = {inst}

Listing == resp # NoResp /\ resp.op \in ListOps /\ resp.status = HTTP_200

\* C5: every row a list endpoint returns to P is of P's institution.
C5_ListIsolation ==
  Listing =>
    \A row \in resp.body : RowOfInstitution(resp.op, row, Caller.user.institution_id)

\* list_injuries returned an injury while the store holds an injury of an
\* athlete of another institution, which it left out.
C5_Witness ==
  /\ Listing
  /\ resp.op = "list_injuries"
  /\ resp.body # {}
  /\ \E j \in injuries :
       /\ ForeignAthlete(j.athlete_id, Caller.user.institution_id)
       /\ j \notin resp.body

\* ---------------------------------------------------------------------- C6
\* list_sessions returns no session of a team of another institution.
ListedSessionsOwn ==
  (Listing /\ resp.op = "list_sessions") =>
    \A s \in resp.body : InstOfTeam(s.team_id) = {Caller.user.institution_id}

ReferencesForeignSession ==
  /\ Authenticated
  /\ resp.op = "create_attendance"
  /\ ForeignSession(resp.payload.session_id, Caller.user.institution_id)

C8_ForeignKeysScoped ==
  /\ \A x \in athletes :
       /\ x.user_id # Null => InstOfUser(x.user_id) = {x.institution_id}
       /\ InstOfSport(x.primary_sport_id) = {x.institution_id}
  /\ \A t \in teams : InstOfSport(t.sport_id) = {t.institution_id}
  /\ ( /\ Authenticated
       /\ resp.op = "create_athlete"
       /\ RoleListed
       /\ \/ /\ resp.payload.user_id # Null
             /\ InstOfUser(resp.payload.user_id) # {Caller.user.institution_id}
          \/ InstOfSport(resp.payload.primary_sport_id) # {Caller.user.institution_id} ) =>
       NotFoundNothingUsed
  /\ ( /\ Authenticated
       /\ resp.op = "create_team"
       /\ RoleListed
       /\ InstOfSport(resp.payload.sport_id) # {Caller.user.institution_id} ) =>
       NotFoundNothingUsed

\* ---------------------------------------------------------------------- C9
ValidCoach(id, inst) ==
  \E u \in users : u.id = id /\ u.role = Role.COACH /\ u.institution_id = inst

NamesCoach ==
  /\ Authenticated
  /\ resp.op \in {"create_team", "create_session"}
  /\ resp.payload.coach_id # Null

\* The request is one the coach check decides: the role is listed and, for
\* create_session, the team is of the caller's institution.
OtherwiseAccepted ==
  /\ RoleListed
  /\ resp.op = "create_session" =>
       InstOfTeam(resp.payload.team_id) = {Caller.user.institution_id}

CreateOps == {"create_athlete", "create_team", "create_session",
              "create_attendance", "create_assessment", "create_injury"}

\* C11: a create request that does not answer 200 (it failed at
\* authentication, at the role check or at a scope / coach check) leaves
\* every table as it was.
C11_NoPartialApplication ==
  (resp # NoResp /\ resp.op \in CreateOps /\ resp.status # HTTP_200) => ~resp.wrote

\* create_session passed the role and team checks, failed at the coach check
\* and wrote nothing.
C11_Witness ==
  /\ Authenticated
  /\ resp.op = "create_session"
  /\ RoleListed
  /\ InstOfTeam(resp.payload.team_id) = {Caller.user.institution_id}
  /\ resp.status = HTTP_400
  /\ ~resp.wrote

\* --------------------------------------------------------------------- C12
\* The statuses that reject an argument: the handlers' 400 and the 422 of
\* the framework's parameter validation.
InvalidArgument == {HTTP_400, HTTP_422}

AppListOps == {"app_list_teams", "app_list_attendance", "app_list_injuries"}

\* C12: on every list endpoint, for an authenticated caller, a query with
\* limit < 1, limit > 200 or offset < 0 is rejected as an invalid argument
\* with no rows; any other query (no parameters: limit 50; limit 200 on an
\* empty result) answers 200 with at most limit rows.
C12_PaginationBounds ==
  (Authenticated /\ resp.op \in ListOps \cup AppListOps) =>
    LET limit == LimitOf(resp.payload)
        offset == OffsetOf(resp.payload)
    IN  IF limit < 1 \/ limit > MaxLimit \/ offset < 0
        THEN resp.status \in InvalidArgument /\ resp.body = {}
        ELSE resp.status = HTTP_200 /\ Cardinality(resp.body) <= limit

ProtectedOps == CreateOps \cup ListOps \cup {"create_institution", "delete_institution"}

\* C15: on a protected endpoint, a token that verifies resolves to the one
\* stored user whose id is its subject; when no user has that id the answer
\* is 401 "Could not validate credentials" (never the 403 of the role
\* check nor the 404 or 400 of a scope check) and nothing is returned; and a
\* request that stops at 401 leaves every table as it was.
C15_IdentityResolution ==
  (resp # NoResp /\ resp.op \in ProtectedOps) =>
    /\ (resp.tok.valid /\ \E u \in users : u.id = resp.tok.sub) =>
         /\ Caller.status = HTTP_200
         /\ Caller.user \in users
         /\ Caller.user.id = resp.tok.sub
         /\ \A u \in users : u.id = resp.tok.sub => u = Caller.user
    /\ (resp.tok.valid /\ ~\E u \in users : u.id = resp.tok.sub) =>
         /\ resp.status = HTTP_401
         /\ resp.detail.msg = "Could not validate credentials"
         /\ resp.body = Null
    /\ resp.status = HTTP_401 => ~resp.wrote

\* An admin-only create with a payload that would pass every later check,
\* sent with a well-signed token whose subject has no user row.
C15_Witness ==
  /\ resp # NoResp
  /\ resp.op = "create_team"
  /\ resp.payload.coach_id = Null
  /\ resp.tok.valid
  /\ ~\E u \in users : u.id = resp.tok.sub
  /\ resp.status = HTTP_401
  /\ ~resp.wrote

\* --------------------------------------------------------------------- C14
\* The token of the bearer request being answered.
Presented == resp.payload.bearer
BearerRequest == resp # NoResp /\ resp.op = "list_athletes"
IssuingOps == {"login", "register"}

\* C14: (issuance) a 200 of login or register carries a token whose subject
\* is the user of the request's email and whose exp is the time of the
\* request + 60 minutes; (verification) an issued token presented before its
\* exp is accepted and resolves the user its subject names, presented after
\* its exp it is answered 401; a token signed with another key, not a JWT, or
\* without a subject is never accepted, and is answered 401 when the key is
\* configured; (no extension) a step only adds tokens to those issued, only
\* as login or register answering 200, each with exp = now + 60: no token's
\* exp is ever changed.
C14_TokenExpiry ==
  /\ [] /\ (resp # NoResp /\ resp.op \in IssuingOps /\ resp.status = HTTP_200) =>
             /\ resp.body.access_token \in issued
             /\ resp.body.access_token.claims.exp = now + ACCESS_TOKEN_EXPIRE_MINUTES
             /\ \E u \in users :
                  /\ u.email = resp.payload.email
                  /\ resp.body.access_token.claims.sub = str(u.id)
        /\ (BearerRequest /\ Presented \in issued) =>
             /\ now < Presented.claims.exp =>
                  /\ resp.status = HTTP_200
                  /\ Caller.status = HTTP_200
                  /\ str(Caller.user.id) = Presented.claims.sub
             /\ now > Presented.claims.exp => resp.status = HTTP_401
        /\ (BearerRequest /\ Presented \in ForgedTokens) =>
             /\ resp.status # HTTP_200
             /\ resp.body = Null
             /\ env.SECRET_KEY # "" => resp.status = HTTP_401
  /\ [][ /\ issued \subseteq issued'
         /\ \A token \in issued' \ issued :
              /\ resp'.op \in IssuingOps
              /\ resp'.status = HTTP_200
              /\ token.claims.exp = now + ACCESS_TOKEN_EXPIRE_MINUTES
     ]_vars

\* A token that was issued, and accepted while it was fresh, is presented
\* after its exp and answered 401.
C14_Witness ==
  /\ BearerRequest
  /\ Presented \in issued
  /\ now > Presented.claims.exp
  /\ resp.status = HTTP_401

\* --------------------------------------------------------------------- C16
\* C16: a register request with an email some user row already has is
\* answered 400 "User already exists", carries no token, hands out none and
\* leaves the users as they were; and no two user rows have the same email.
C16_RegistrationConflict ==
  /\ [] \A u, v \in users : u.email = v.email => u = v
  /\ [][ ( /\ resp'.op = "register"
           /\ resp = NoResp
           /\ \E u \in users : u.email = resp'.payload.email )
         => /\ resp'.status = HTTP_400
            /\ resp'.detail.msg = "User already exists"
            /\ resp'.body = Null
            /\ issued' = issued
            /\ users' = users
     ]_vars

\* An email is registered through the endpoint, and registered again.
C16_Witness ==
  /\ resp # NoResp
  /\ resp.op = "register"
  /\ resp.status = HTTP_400
  /\ \E u \in users \ SeedUsers : u.email = resp.payload.email
  /\ ~resp.wrote

\* --------------------------------------------------------------------- C17
\* A process started without DATABASE_URL never serves: importing app.db
\* raises.
DatabaseUrlFatal ==
  env.DATABASE_URL = "" => (process # "serving" /\ resp = NoResp)

\* C17: a process whose environment lacks SECRET_KEY or DATABASE_URL never
\* serves: it answers no request and changes no table.
C17_FatalStartup ==
  (env.SECRET_KEY = "" \/ env.DATABASE_URL = "") =>
    /\ process # "serving"
    /\ resp = NoResp
    /\ users = SeedUsers

\* --------------------------------------------------------------------- C18
\* The rows register has added.
Registered == users \ SeedUsers

\* C18: every user row that register created has an institution and a role
\* (institution_id is null only for a super-admin not yet assigned).
C18_UserTenancy ==
  \A u \in Registered : u.institution_id # Null /\ u.role # NoRole

\* No step changes the institution of a user row or removes one.
UserInstitutionImmutable ==
  [][ \A u \in users : \E v \in users' :
        v.id = u.id /\ v.institution_id = u.institution_id ]_vars

\* --------------------------------------------------------------------- C19
\* C19: a step adds an injury row only as create_injury answering 200, the
\* row is the one returned, and its reported_by is the id of the principal
\* the request's token resolves to, whatever reported_by the payload has; no
\* step changes the reported_by of a row.
C19_InjuryAttribution ==
  [][ /\ \A y \in injuries' \ injuries :
           /\ resp'.op = "create_injury"
           /\ resp'.status = HTTP_200
           /\ y = resp'.body
           /\ y.reported_by = get_current_user(Store, resp'.tok).user.id
      /\ \A x \in injuries : x \in injuries'
    ]_vars

\* A caller named another user as the reporter; the row names the caller.
C19_Witness ==
  /\ Authenticated
  /\ resp.op = "create_injury"
  /\ resp.status = HTTP_200
  /\ resp.payload.reported_by # Null
  /\ resp.payload.reported_by # Caller.user.id
  /\ resp.body \in injuries
  /\ resp.body.reported_by = Caller.user.id

\* --------------------------------------------------------------------- C20
\* C20: create_athlete by an admin or coach with no user_id answers 200 and
\* stores an athlete with no linked user in the caller's institution.
C20_OptionalUserLink ==
  ( /\ Authenticated
    /\ resp.op = "create_athlete"
    /\ MayCreate
    /\ resp.payload.user_id = Null )
  => /\ resp.status = HTTP_200
     /\ resp.body \in athletes
     /\ resp.body.user_id = Null
     /\ resp.body.institution_id = Caller.user.institution_id

\* --------------------------------------------------------------------- C23
\* The athlete / session / team the request names is not a row of the
\* caller's institution (it is another institution's, or no row at all).
AthleteOutOfTenant == InstOfAthlete(resp.payload.athlete_id) # {Caller.user.institution_id}
SessionOutOfTenant == InstOfSession(resp.payload.session_id) # {Caller.user.institution_id}
TeamOutOfTenant == InstOfTeam(resp.payload.team_id) # {Caller.user.institution_id}

C25_AuthenticationFirst ==
  (resp # NoResp /\ ~Authenticated) =>
    /\ resp.status = HTTP_401
    /\ resp.body = Null
    /\ ~resp.wrote

\* The same for the endpoints that resolve the caller.
ProtectedAuthenticationFirst ==
  (resp # NoResp /\ resp.op \in ProtectedOps /\ ~Authenticated) =>
    /\ resp.status = HTTP_401
    /\ resp.body = Null
    /\ ~resp.wrote

\* --------------------------------------------------------------------- C26
\* C26: delete_institution by an admin naming an institution other than the
\* admin's own is answered 404 "Institution not found", as for an id no
\* institution has, and removes nothing.
C26_DeleteOwnInstitutionOnly ==
  ( /\ Authenticated
    /\ resp.op = "delete_institution"
    /\ Caller.user.role = Role.ADMIN
    /\ resp.payload # Caller.user.institution_id )
  => /\ resp.status = HTTP_404
     /\ resp.detail.msg = "Institution not found"
     /\ ~resp.wrote

\* ------------------------------------------- the create handlers, by step
\* A handler's queries and its commit are separate statements; other
\* requests' statements may run between them.  Each query sees what is
\* committed when it runs.
Pass == [ok |-> TRUE, status |-> HTTP_200, detail |-> [msg |-> "ok", ref |-> Null]]
Raise(status, msg, ref) ==
  [ok |-> FALSE, status |-> status, detail |-> [msg |-> msg, ref |-> ref]]

\* The checks each create makes between its dependencies and its insert.
NumChecks ==
  [ create_athlete |-> 1, create_team |-> 1, create_session |-> 2,
    create_attendance |-> 2, create_assessment |-> 3, create_injury |-> 1 ]

\* The table each create inserts into.
TableOf ==
  [ create_athlete |-> "athletes", create_team |-> "teams",
    create_session |-> "sessions", create_attendance |-> "attendance",
    create_assessment |-> "assessments", create_injury |-> "injuries" ]

\* scope_check with the session of create_attendance looked up by id alone.
scope_check_session_by_id(op, k, S, current_user, p) ==
  CASE op = "create_athlete" ->
         IF {u \in S.users : u.id = p.user_id} = {}
         THEN Raise(HTTP_404, "User not found", p.user_id) ELSE Pass
    [] op = "create_team" ->
         IF p.coach_id # Null
            /\ { u \in S.users : /\ u.id = p.coach_id
                                 /\ u.institution_id = current_user.institution_id
                                 /\ u.role = Role.COACH } = {}
         THEN Raise(HTTP_400, "Invalid coach_id", Null) ELSE Pass
    [] op = "create_session" /\ k = 1 ->
         IF { t \in S.teams : /\ t.id = p.team_id
                              /\ t.institution_id = current_user.institution_id } = {}
         THEN Raise(HTTP_404, "Team not found in your institution", Null) ELSE Pass
    [] op = "create_session" /\ k = 2 ->
         IF p.coach_id # Null
            /\ { u \in S.users : /\ u.id = p.coach_id
                                 /\ u.institution_id = current_user.institution_id
                                 /\ u.role = Role.COACH } = {}
         THEN Raise(HTTP_400, "Invalid coach_id for your institution", Null) ELSE Pass
    [] op \in {"create_attendance", "create_assessment", "create_injury"} /\ k = 1 ->
         IF { x \in S.athletes : /\ x.id = p.athlete_id
                                 /\ x.institution_id = current_user.institution_id } = {}
         THEN Raise(HTTP_404, "Athlete not found in your institution", p.athlete_id)
         ELSE Pass
    [] op = "create_attendance" /\ k = 2 ->
         IF { x \in S.sessions : x.id = p.session_id } = {}
         THEN Raise(HTTP_404, "Session not found in your institution", p.session_id)
         ELSE Pass
    [] op = "create_assessment" /\ k = 2 ->
         IF { t \in S.assessment_types :
                /\ t.id = p.assessment_type_id
                /\ t.institution_id = current_user.institution_id } = {}
         THEN Raise(HTTP_404, "Assessment type not found in your institution",
                    p.assessment_type_id)
         ELSE Pass
    [] op = "create_assessment" /\ k = 3 ->
         IF ~IsNumber(p.value)
         THEN Raise(HTTP_400, "Assessment value must be a number", Null) ELSE Pass

\* The k-th check of create handler op, run on the store S as it is then:
\* the query and the raise that follows it.
scope_check(op, k, S, current_user, p) ==
  CASE op = "create_athlete" ->
         IF {u \in S.users : u.id = p.user_id} = {}
         THEN Raise(HTTP_404, "User not found", p.user_id) ELSE Pass
    [] op = "create_team" ->
         IF p.coach_id # Null
            /\ { u \in S.users : /\ u.id = p.coach_id
                                 /\ u.institution_id = current_user.institution_id
                                 /\ u.role = Role.COACH } = {}
         THEN Raise(HTTP_400, "Invalid coach_id", Null) ELSE Pass
    [] op = "create_session" /\ k = 1 ->
         IF { t \in S.teams : /\ t.id = p.team_id
                              /\ t.institution_id = current_user.institution_id } = {}
         THEN Raise(HTTP_404, "Team not found in your institution", Null) ELSE Pass
    [] op = "create_session" /\ k = 2 ->
         IF p.coach_id # Null
            /\ { u \in S.users : /\ u.id = p.coach_id
                                 /\ u.institution_id = current_user.institution_id
                                 /\ u.role = Role.COACH } = {}
         THEN Raise(HTTP_400, "Invalid coach_id for your institution", Null) ELSE Pass
    [] op \in {"create_attendance", "create_assessment", "create_injury"} /\ k = 1 ->
         IF { x \in S.athletes : /\ x.id = p.athlete_id
                                 /\ x.institution_id = current_user.institution_id } = {}
         THEN Raise(HTTP_404, "Athlete not found in your institution", p.athlete_id)
         ELSE Pass
    [] op = "create_attendance" /\ k = 2 ->
         IF { x \in SessionsOf(S, current_user.institution_id) :
                x.id = p.session_id } = {}
         THEN Raise(HTTP_404, "Session not found in your institution", p.session_id)
         ELSE Pass
    [] op = "create_assessment" /\ k = 2 ->
         IF { t \in S.assessment_types :
                /\ t.id = p.assessment_type_id
                /\ t.institution_id = current_user.institution_id } = {}
         THEN Raise(HTTP_404, "Assessment type not found in your institution",
                    p.assessment_type_id)
         ELSE Pass
    [] op = "create_assessment" /\ k = 3 ->
         IF ~IsNumber(p.value)
         THEN Raise(HTTP_400, "Assessment value must be a number", Null) ELSE Pass

\* The row create handler op builds, with uuid4 as its id.  uuid4 reads
\* nothing of the store; it is taken to collide with no id in use, so the id
\* is drawn as the row is committed.
new_row(op, S, current_user, p) ==
  CASE op = "create_athlete" ->
         [ id |-> FreshId(S.athletes), primary_sport_id |-> p.primary_sport_id,
           user_id |-> p.user_id, institution_id |-> current_user.institution_id ]
    [] op = "create_team" ->
         [ id |-> FreshId(S.teams), sport_id |-> p.sport_id,
           institution_id |-> current_user.institution_id, coach_id |-> p.coach_id ]
    [] op = "create_session" ->
         [ id |-> FreshId(S.sessions), team_id |-> p.team_id, coach_id |-> p.coach_id ]
    [] op = "create_attendance" ->
         [ id |-> FreshId(S.attendance), athlete_id |-> p.athlete_id,
           session_id |-> p.session_id, status |-> p.status,
           recorded_at |-> func_now ]
    [] op = "create_assessment" ->
         [ id |-> FreshId(S.assessments), athlete_id |-> p.athlete_id,
           assessment_type_id |-> p.assessment_type_id, value |-> p.value ]
    [] op = "create_injury" ->
         [ id |-> FreshId(S.injuries), athlete_id |-> p.athlete_id,
           reported_by |-> current_user.id ]

\* get_db closing its session only after a handler that returned.
get_db_closes_after_return(exit) == exit = "returned"

\* get_db: try: yield db / finally: db.close().  The session is closed on
\* every way out of the request: the handler returned, an HTTPException
\* was raised, or something else failed.
get_db_closes(exit) == exit \in {"returned", "raised", "failed"}

\* ------------------------------------------------- concurrent requests
\* The requests the workers handle: each create once, naming the first row
\* of the tables it refers to, sent by the admin of either institution; and
\* create_team sent by a coach, which the role check ends.
ConcurrentPayloads ==
  [ create_athlete |-> [user_id |-> 4, primary_sport_id |-> 2],
    create_team |-> [sport_id |-> 2, coach_id |-> Null],
    create_session |-> [team_id |-> 1, coach_id |-> Null],
    create_attendance |-> [athlete_id |-> 1, session_id |-> 1, status |-> "present"],
    create_assessment |-> [athlete_id |-> 1, assessment_type_id |-> 1, value |-> 7],
    create_injury |-> [athlete_id |-> 1, reported_by |-> Null] ]
ConcurrentRequests ==
  { [op |-> op, tok |-> [valid |-> TRUE, sub |-> s], payload |-> ConcurrentPayloads[op]] :
      op \in CreateOps, s \in {1, 3} }
    \cup { [ op |-> "create_team", tok |-> [valid |-> TRUE, sub |-> 2],
             payload |-> ConcurrentPayloads["create_team"] ] }

\* The principal of worker w's request, as its dependency resolved it.
CurrentUser(w) == get_current_user(Store, inflight[w].tok).user

Busy(w) == inflight[w].pc \in {"check", "insert"}
Ended(w) == inflight[w].pc \in {"returned", "raised", "failed"}

\* The tables take the store S; nothing else of the store changes.
Persist(S) ==
  /\ institutions' = S.institutions
  /\ users' = S.users
  /\ sports' = S.sports
  /\ assessment_types' = S.assessment_types
  /\ athletes' = S.athletes
  /\ teams' = S.teams
  /\ sessions' = S.sessions
  /\ attendance' = S.attendance
  /\ assessments' = S.assessments
  /\ injuries' = S.injuries

\* A worker takes a request and resolves its dependencies in the order of
\* the handler's parameters: require_role (get_current_user with the
\* session of auth.get_db), then, if that did not raise, the router's get_db.
Receive ==
  \E w \in Workers, req \in ConcurrentRequests :
    LET a == require_role(Store, req.tok, AllowList[req.op])
        pending == {v \in Workers : Busy(v)}
        same == {v \in pending : inflight[v].op = req.op}
    IN  /\ Serving
        /\ inflight[w] = NoRequest
        /\ Changed(Store) + Cardinality(pending) < MaxRowsConcurrent
        /\ Cardinality(Store[TableOf[req.op]]) + Cardinality(same) < Cardinality(RefIds)
        /\ inflight' = [inflight EXCEPT ![w] =
             [ op |-> req.op, tok |-> req.tok, payload |-> req.payload,
               pc |-> IF a.status = HTTP_200 THEN "check" ELSE "raised",
               k |-> 1, status |-> a.status,
               detail |-> [msg |-> a.msg, ref |-> Null], body |-> Null ]]
        /\ db_sessions' = db_sessions
             \cup {[request |-> w, get_db |-> "auth"]}
             \cup (IF a.status = HTTP_200 THEN {[request |-> w, get_db |-> "router"]}
                   ELSE {})
        /\ UNCHANGED <<institutions, users, sports, assessment_types, athletes, teams,
                       sessions, attendance, assessments, injuries, resp,
                       env, process, now, issued>>

\* The handler runs its next query and raises if the row is not there.
Check ==
  \E w \in Workers :
    /\ inflight[w].pc = "check"
    /\ LET r == inflight[w]
           c == scope_check(r.op, r.k, Store, CurrentUser(w), r.payload)
       IN  inflight' = [inflight EXCEPT ![w] =
             IF ~c.ok
             THEN [r EXCEPT !.pc = "raised", !.status = c.status, !.detail = c.detail]
             ELSE IF r.k = NumChecks[r.op]
             THEN [r EXCEPT !.pc = "insert"]
             ELSE [r EXCEPT !.k = r.k + 1]]
    /\ UNCHANGED <<institutions, users, sports, assessment_types, athletes, teams,
                   sessions, attendance, assessments, injuries, resp,
                   env, process, now, issued, db_sessions>>

\* db.add / db.commit / db.refresh / return.
Commit ==
  \E w \in Workers :
    /\ inflight[w].pc = "insert"
    /\ LET r == inflight[w]
           row == new_row(r.op, Store, CurrentUser(w), r.payload)
       IN  /\ Persist([Store EXCEPT ![TableOf[r.op]] = @ \cup {row}])
           /\ inflight' = [inflight EXCEPT ![w] =
                [r EXCEPT !.pc = "returned", !.body = row]]
    /\ UNCHANGED <<resp, env, process, now, issued, db_sessions>>

\* Something other than an HTTPException ends the handler: the store does
\* not answer a query or refuses the commit.  Nothing is written.
Fail ==
  \E w \in Workers :
    /\ Busy(w)
    /\ inflight' = [inflight EXCEPT ![w] =
         [@ EXCEPT !.pc = "failed", !.status = HTTP_500,
                   !.detail = [msg |-> "Internal Server Error", ref |-> Null]]]
    /\ UNCHANGED <<institutions, users, sports, assessment_types, athletes, teams,
                   sessions, attendance, assessments, injuries, resp,
                   env, process, now, issued, db_sessions>>

\* The response goes out and the dependencies' exit code runs.
Finish ==
  \E w \in Workers :
    /\ Ended(w)
    /\ db_sessions' = { d \in db_sessions :
                          ~(d.request = w /\ get_db_closes(inflight[w].pc)) }
    /\ inflight' = [inflight EXCEPT ![w] = NoRequest]
    /\ UNCHANGED <<institutions, users, sports, assessment_types, athletes, teams,
                   sessions, attendance, assessments, injuries, resp,
                   env, process, now, issued>>

NextConcurrent ==
  \/ Receive
  \/ Check
  \/ Commit
  \/ Finish

SpecConcurrent == Init /\ [][NextConcurrent]_vars

\* The same with handlers that fail unexpectedly.
NextLifetime ==
  \/ Receive
  \/ Check
  \/ Commit
  \/ Fail
  \/ Finish

SpecLifetime == Init /\ [][NextLifetime]_vars

\* --------------------------------------------------------------------- C21
\* The create handler op run alone: all of its steps on the store S.
Alone(op, S, tok, p) ==
  CASE op = "create_athlete" -> create_athlete(S, tok, p)
    [] op = "create_team" -> create_team(S, tok, p)
    [] op = "create_session" -> create_session(S, tok, p)
    [] op = "create_attendance" -> create_attendance(S, tok, p)
    [] op = "create_assessment" -> create_assessment(S, tok, p)
    [] op = "create_injury" -> create_injury(S, tok, p)

\* The checks worker w's request has passed so far.
PassedChecks(w) ==
  IF inflight[w].pc = "insert" THEN 1 .. NumChecks[inflight[w].op]
  ELSE 1 .. (inflight[w].k - 1)

\* C21: for create requests handled concurrently, statement by statement:
\* (a) at the step that decides a request (a dependency or a check raises,
\* or the row is committed) its status and detail are those of the handler
\* run alone on the store of that moment, and a commit changes the store
\* exactly as the handler run alone would: one new row in one table, with an
\* id no row of the table had; (b) as long as a request is on its way, every
\* check it has passed still passes on the store as it is now; (c) no table
\* ever holds two rows with one id.
C21_ConcurrentCreatesSafe ==
  /\ [] /\ \A w \in Workers : Busy(w) =>
             \A j \in PassedChecks(w) :
               scope_check(inflight[w].op, j, Store, CurrentUser(w),
                           inflight[w].payload).ok
        /\ \A t \in Written(Store) : \A x, y \in t : x.id = y.id => x = y
  /\ [][ \A w \in Workers :
           (~Ended(w) /\ inflight'[w].pc \in {"returned", "raised"}) =>
             LET q == inflight'[w]
                 alone == Alone(q.op, Store, q.tok, q.payload)
             IN  /\ q.status = alone.status
                 /\ q.detail = alone.detail
                 /\ q.body = alone.body
                 /\ q.pc = "raised" => alone.store = Store
                 /\ q.pc = "returned" =>
                      /\ athletes' = alone.store.athletes
                      /\ teams' = alone.store.teams
                      /\ sessions' = alone.store.sessions
                      /\ attendance' = alone.store.attendance
                      /\ assessments' = alone.store.assessments
                      /\ injuries' = alone.store.injuries
                      /\ Changed(alone.store) = Changed(Store) + 1
                      /\ \A x \in Store[TableOf[q.op]] : x.id # q.body.id
     ]_vars

\* Two attendance requests for the same athlete and session were on their
\* way together and both committed, each its own row.
C21_Witness ==
  /\ \A w \in Workers :
       /\ inflight[w].pc = "returned"
       /\ inflight[w].op = "create_attendance"
       /\ inflight[w].body \in attendance
  /\ inflight[1].payload = inflight[2].payload
  /\ inflight[1].body.id # inflight[2].body.id

\* --------------------------------------------------------------------- C22
\* C22: every open store session is the session of a request that is still
\* being handled or answered, and the step that ends a request - after a
\* return, after an HTTPException of a dependency or a check, or after an
\* unexpected failure - leaves none of its sessions open.
C22_SessionClosedWithRequest ==
  /\ [] \A d \in db_sessions : inflight[d.request] # NoRequest
  /\ [][ \A w \in Workers :
           (Ended(w) /\ inflight'[w] = NoRequest) =>
             /\ \E d \in db_sessions : d.request = w
             /\ ~\E d \in db_sessions' : d.request = w
     ]_vars

\* A request committed its row and ended, and no session is open.
C22_Witness ==
  /\ \A w \in Workers : inflight[w] = NoRequest
  /\ db_sessions = {}
  /\ Changed(Store) > 0

\* ------------------------------------------- concurrent registrations
\* register, statement by statement: the lookup of the email, the insert
\* and commit, the token.
RaceRequests == [email : {"a@x.com", "b@x.com"}, password : {"pw"}]

\* A worker takes a register request; its one dependency opens a session.
RegisterReceive ==
  \E w \in Workers, p \in RaceRequests :
    /\ Serving
    /\ inflight[w] = NoRequest
    /\ inflight' = [inflight EXCEPT ![w] =
         [ op |-> "register", tok |-> NoToken, payload |-> p, pc |-> "check",
           k |-> 1, status |-> HTTP_200, detail |-> [msg |-> "ok", ref |-> Null],
           body |-> Null ]]
    /\ db_sessions' = db_sessions \cup {[request |-> w, get_db |-> "auth"]}
    /\ UNCHANGED <<institutions, users, sports, assessment_types, athletes, teams,
                   sessions, attendance, assessments, injuries, resp,
                   env, process, now, issued>>

\* existing_user = ...first(); if existing_user: raise 400.
RegisterLookup ==
  \E w \in Workers :
    /\ inflight[w].pc = "check"
    /\ inflight[w].op = "register"
    /\ LET r == inflight[w]
       IN  inflight' = [inflight EXCEPT ![w] =
             IF {u \in users : u.email = r.payload.email} # {}
             THEN [r EXCEPT !.pc = "raised", !.status = HTTP_400,
                            !.detail = [msg |-> "User already exists", ref |-> Null]]
             ELSE [r EXCEPT !.pc = "insert"]]
    /\ UNCHANGED <<institutions, users, sports, assessment_types, athletes, teams,
                   sessions, attendance, assessments, injuries, resp,
                   env, process, now, issued, db_sessions>>

\* db.add(new_user); db.commit().  app_user.email is unique: the store
\* refuses the insert when a committed row has the email, and the
\* IntegrityError of commit is caught nowhere.
RegisterInsert ==
  \E w \in Workers :
    /\ inflight[w].pc = "insert"
    /\ inflight[w].op = "register"
    /\ LET r == inflight[w]
           new_user == [ id |-> FreshId(users), institution_id |-> Null,
                         role |-> NoRole, email |-> r.payload.email,
                         password |-> hash_password(r.payload.password) ]
       IN  IF {u \in users : u.email = r.payload.email} # {}
           THEN /\ inflight' = [inflight EXCEPT ![w] =
                     [r EXCEPT !.pc = "failed", !.status = HTTP_500,
                               !.detail = [msg |-> "Internal Server Error",
                                           ref |-> Null]]]
                /\ users' = users
           ELSE /\ inflight' = [inflight EXCEPT ![w] =
                     [r EXCEPT !.pc = "token", !.k = new_user.id]]
                /\ users' = users \cup {new_user}
    /\ UNCHANGED <<institutions, sports, assessment_types, athletes, teams,
                   sessions, attendance, assessments, injuries, resp,
                   env, process, now, issued, db_sessions>>

\* token = create_access_token({"sub": str(new_user.id)}); return.
RegisterToken ==
  \E w \in Workers :
    /\ inflight[w].pc = "token"
    /\ inflight[w].op = "register"
    /\ LET r == inflight[w]
           token == create_access_token([sub |-> str(r.k)], Null, env.SECRET_KEY, now)
       IN  IF token.raised # ""
           THEN /\ inflight' = [inflight EXCEPT ![w] =
                     [r EXCEPT !.pc = "failed", !.status = HTTP_500]]
                /\ issued' = issued
           ELSE /\ inflight' = [inflight EXCEPT ![w] =
                     [r EXCEPT !.pc = "returned",
                               !.body = [access_token |-> token.encoded_jwt,
                                         token_type |-> "bearer"]]]
                /\ issued' = issued \cup {token.encoded_jwt}
    /\ UNCHANGED <<institutions, users, sports, assessment_types, athletes, teams,
                   sessions, attendance, assessments, injuries, resp,
                   env, process, now, db_sessions>>

NextRegistration ==
  \/ RegisterReceive
  \/ RegisterLookup
  \/ RegisterInsert
  \/ RegisterToken
  \/ Finish

SpecRegistration == Init /\ [][NextRegistration]_vars

\* --------------------------------------------------------------------- C24
\* No two user rows have one email, and no two tokens are issued for one
\* email's rows.
OneRowOneTokenPerEmail ==
  /\ \A u, v \in users : u.email = v.email => u = v
  /\ \A s, t \in issued : s.claims.sub = t.claims.sub => s = t

\* C24: of register requests handled concurrently no two leave rows with
\* one email or receive tokens for it, and every one of them ends with a
\* token (200) or with Conflict (400), never with an unhandled failure.
C24_ConcurrentRegistration ==
  /\ OneRowOneTokenPerEmail
  /\ \A w \in Workers :
       (Ended(w) /\ inflight[w].op = "register") =>
         /\ inflight[w].pc # "failed"
         /\ inflight[w].status \in {HTTP_200, HTTP_400}

====
